---- MODULE Spec2Model ----
(***************************************************************************)
(* Gesture-controlled audio player: GestureController (frame loop,         *)
(* keyboard handlers, background render threads) and the pygame music      *)
(* sink it drives.                                                         *)
(*                                                                         *)
(* Units.  Landmark coordinates, distances, speed and volume are in        *)
(* thousandths (0.3 is 300, speed 1.06 is 1060); pitch is in thousandths   *)
(* of a semitone (-2.4 is -2400); time is in milliseconds.                 *)
(***************************************************************************)
EXTENDS Integers, Sequences, FiniteSets, TLC

\* ------------------------------------------------------------------ bounds
MaxTicks == 4

\* --------------------------------------------------------------- constants
TickMs == 50
StartTime == 1000
speed_threshold == 50
pitch_threshold == 500
update_interval == 200
None == 99999

\* ----------------------------------------------------------- pure helpers
Abs(x) == IF x < 0 THEN 0 - x ELSE x

ClipNoUpper(x, lo, hi) == IF x < lo THEN lo ELSE x

Clip(x, lo, hi) == IF x < lo THEN lo ELSE IF x > hi THEN hi ELSE x

RECURSIVE SqrtSearch(_, _, _)
SqrtSearch(n, lo, hi) ==
    IF lo >= hi THEN lo
    ELSE LET mid == (lo + hi + 1) \div 2
         IN IF mid * mid <= n THEN SqrtSearch(n, mid, hi)
                              ELSE SqrtSearch(n, lo, mid - 1)

Sqrt(n) == SqrtSearch(n, 0, 2000)

calculate_distance(landmark1, landmark2) ==
    Sqrt((landmark1[1] - landmark2[1]) * (landmark1[1] - landmark2[1])
       + (landmark1[2] - landmark2[2]) * (landmark1[2] - landmark2[2]))

\* round() of Python on a float: nearest integer, ties to even
RoundSemitone(p) ==
    LET f == IF p >= 0 THEN p \div 1000 ELSE 0 - ((0 - p + 999) \div 1000)
        r == p - f * 1000
    IN IF r < 500 THEN f
       ELSE IF r > 500 THEN f + 1
       ELSE IF f % 2 = 0 THEN f ELSE f + 1

\* ------------------------------------------------------- landmark source
Wrist0 == <<0, 0>>
Wrist1 == <<300, 400>>
Wrist2 == <<720, 960>>

Hand(w, pinch) ==
    [wrist |-> w,
     thumb |-> <<w[1], w[2] + 200>>,
     index |-> <<w[1] + pinch, w[2] + 200>>]

Hands == {Hand(Wrist0, 120), Hand(Wrist0, 130), Hand(Wrist0, 300),
          Hand(Wrist1, 300), Hand(Wrist2, 700)}

\* every frame the landmark source can deliver: no hand, one hand, two hands
MultiHandLandmarks ==
    {<<>>} \cup {<<h>> : h \in Hands} \cup {<<h, g>> : h \in Hands, g \in Hands}

\* the frames delivered while render threads run
SampleFrames ==
    {<<>>,
     <<Hand(Wrist2, 700)>>,
     <<Hand(Wrist2, 700), Hand(Wrist0, 300)>>,
     <<Hand(Wrist1, 300), Hand(Wrist2, 700)>>}

\* ------------------------------------------------------------------ state
VARIABLES
    self,        \* the GestureController's fields
    music,       \* pygame.mixer.music: loaded buffer, status, loop, volume
    temp_output, \* content of the temporary wav file
    tasks,       \* the render threads started so far
    now,         \* time.time()
    in_effect    \* history: the pairs (current_speed, rounded current_pitch)
                 \* there have been, where a specification records them

vars == <<self, music, temp_output, tasks, now, in_effect>>

\* an audio buffer: which render produced it (0: the source file) and with
\* which parameters; ok is FALSE for an empty or partly written file
Buffer(by, speed, pitch, ok) == [by |-> by, speed |-> speed, pitch |-> pitch, ok |-> ok]

SourceAudio == Buffer(0, 1000, 0, TRUE)
EmptyFile == Buffer(0, None, None, FALSE)

\* what an operation logged in its trace, by kind
Count(trace, kinds) == Cardinality({k \in 1..Len(trace) : trace[k].what \in kinds})

Entry(what, old, new, base) == [what |-> what, old |-> old, new |-> new, base |-> base]

Init ==
    /\ self = [current_speed |-> 1000, current_pitch |-> 0,
               last_speed |-> 1000, last_pitch |-> 0,
               u_last_speed |-> None, u_last_pitch |-> None,
               last_update_time |-> 0,
               is_playing |-> TRUE, paused |-> FALSE,
               accepted_pitch |-> 0]
    /\ music = [loaded |-> SourceAudio, status |-> "playing", loop |-> TRUE,
                volume |-> 1000]
    /\ temp_output = EmptyFile
    /\ tasks = <<>>
    /\ now = StartTime
    /\ in_effect = {<<1000, 0>>}

\* ------------------------------------------------ pygame.mixer.music calls
music_set_volume(m, v) == [m EXCEPT !.volume = v]

music_load(m, buf) == [m EXCEPT !.loaded = buf, !.status = "stopped"]

music_play(m, loop) == [m EXCEPT !.status = "playing", !.loop = loop]

music_pause(m) == [m EXCEPT !.status = IF @ = "playing" THEN "paused" ELSE @]

music_unpause(m) == [m EXCEPT !.status = IF @ = "paused" THEN "playing" ELSE @]

\* ------------------------------------------------------ the gesture mapper
\* the world an operation of the frame thread works on: the controller, the
\* sink, the threads, and the log of what the operation did
World(s, m, ts, tr) == [self |-> s, music |-> m, tasks |-> ts, trace |-> tr]

Log(w, e) == [w EXCEPT !.trace = Append(@, e)]

NewTask(t) ==
    [pc |-> "check", spawn_time |-> t, speed |-> None, pitch |-> None,
     clean |-> TRUE]

GateOpenNoLimit(t, last) == TRUE

GateOpen(t, last) == ~(t - last < update_interval)

adjust_audio(w, t) ==
    IF ~GateOpen(t, w.self.last_update_time)
    THEN Log(w, Entry("gated", w.self.last_update_time, t, 0))
    ELSE Log([w EXCEPT !.self.last_update_time = t,
                       !.tasks = Append(@, NewTask(t))],
             Entry("spawn", w.self.last_update_time, t, 0))

SpeedCandidate(pinch_distance) ==
    Clip(1000 + (pinch_distance - 100) * 2, 500, 2000)

PitchCandidateNoOffset(pinch_distance) ==
    Clip((pinch_distance - 100) * 48, 0 - 12000, 12000)

PitchCandidate(pinch_distance) ==
    Clip((pinch_distance - 100) * 48 - 12000, 0 - 12000, 12000)

VolumeCandidateRaw(hand_distance) == hand_distance

VolumeCandidate(hand_distance) == Clip(hand_distance, 0, 1000)

SpeedAcceptedLoose(new_speed, last) == Abs(new_speed - last) > 30

SpeedAccepted(new_speed, last) == Abs(new_speed - last) > speed_threshold

PitchAccepted(new_pitch, last) == Abs(new_pitch - last) > pitch_threshold

\* the distances of the landmark source's hands, computed once
PinchTable == [h \in Hands |-> calculate_distance(h.thumb, h.index)]

WristTable ==
    [p \in Hands \X Hands |-> calculate_distance(p[1].wrist, p[2].wrist)]

Pinch(hand) == PinchTable[hand]

\* lines 110-123: volume from the distance between the two wrists
TwoHandVolume(w, all) ==
    LET volume == VolumeCandidate(WristTable[<<all[1], all[2]>>])
    IN Log([w EXCEPT !.music = music_set_volume(@, volume)],
           Entry("volume", w.music.volume, volume, 0))

\* lines 125-135: speed from the pinch of the first hand
TwoHandSpeed(w, all, t) ==
    LET new_speed == SpeedCandidate(Pinch(all[1]))
    IN IF SpeedAccepted(new_speed, w.self.last_speed)
       THEN adjust_audio(
                Log([w EXCEPT !.self.current_speed = new_speed,
                              !.self.last_speed = new_speed],
                    Entry("speed", w.self.current_speed, new_speed, w.self.last_speed)),
                t)
       ELSE w

\* lines 137-146: pitch from the pinch of the second hand, compared with
\* current_pitch; last_pitch is not written
TwoHandPitch(w, all, t) ==
    LET frequency_shift == PitchCandidate(Pinch(all[2]))
    IN IF PitchAccepted(frequency_shift, w.self.current_pitch)
       THEN adjust_audio(
                Log([w EXCEPT !.self.current_pitch = frequency_shift,
                              !.self.accepted_pitch = frequency_shift],
                    Entry("pitch2", w.self.current_pitch, frequency_shift,
                          w.self.accepted_pitch)),
                t)
       ELSE w

OneHandPitchAndSpeed(w, hand_landmarks, t) ==
    LET new_pitch == PitchCandidate(Pinch(hand_landmarks))
    IN IF PitchAccepted(new_pitch, w.self.last_pitch)
       THEN adjust_audio(
                Log([w EXCEPT !.self.current_pitch = new_pitch,
                              !.self.last_pitch = new_pitch,
                              !.self.accepted_pitch = new_pitch,
                              !.self.current_speed = SpeedCandidate(Pinch(hand_landmarks))],
                    Entry("pitch1", w.self.current_pitch, new_pitch,
                          w.self.accepted_pitch)),
                t)
       ELSE w

\* lines 148-163: pitch from the pinch of the hand being handled, compared
\* with last_pitch
OneHandPitch(w, hand_landmarks, t) ==
    LET new_pitch == PitchCandidate(Pinch(hand_landmarks))
    IN IF PitchAccepted(new_pitch, w.self.last_pitch)
       THEN adjust_audio(
                Log([w EXCEPT !.self.current_pitch = new_pitch,
                              !.self.last_pitch = new_pitch,
                              !.self.accepted_pitch = new_pitch],
                    Entry("pitch1", w.self.current_pitch, new_pitch,
                          w.self.accepted_pitch)),
                t)
       ELSE w

handle_gestures(w, hand_landmarks, all_hand_landmarks, t) ==
    LET w1 == IF Len(all_hand_landmarks) = 2
              THEN TwoHandPitch(
                       TwoHandSpeed(TwoHandVolume(w, all_hand_landmarks),
                                    all_hand_landmarks, t),
                       all_hand_landmarks, t)
              ELSE w
    IN OneHandPitch(w1, hand_landmarks, t)

HandLoopReversed(w, i, all, t) ==
    IF Len(all) = 0 THEN w
    ELSE IF Len(all) = 1 THEN handle_gestures(w, all[1], all, t)
    ELSE handle_gestures(handle_gestures(w, all[2], all, t), all[1], all, t)

RECURSIVE HandLoop(_, _, _, _)
HandLoop(w, i, all, t) ==
    IF i > Len(all) THEN w
    ELSE HandLoop(handle_gestures(w, all[i], all, t), i + 1, all, t)

process_frame(w, all, t) == HandLoop(w, 1, all, t)

\* ------------------------------------------------------ keyboard handlers
toggle_play_pause(w) ==
    IF w.self.is_playing
    THEN [w EXCEPT !.music = IF w.self.paused THEN music_unpause(@) ELSE music_pause(@),
                   !.self.paused = ~@]
    ELSE [w EXCEPT !.music = music_play(@, TRUE), !.self.is_playing = TRUE]

reset_controls(w, t) ==
    LET w1 == adjust_audio([w EXCEPT !.self.current_speed = 1000,
                                     !.self.current_pitch = 0,
                                     !.self.u_last_speed = 1000,
                                     !.self.u_last_pitch = 0],
                           t)
    IN IF ~w1.self.is_playing
       THEN [w1 EXCEPT !.music = music_play(@, TRUE),
                       !.self.is_playing = TRUE,
                       !.self.paused = FALSE]
       ELSE w1

\* ------------------------------------------------- frame thread: main loop
Commit(w) ==
    /\ self' = w.self
    /\ music' = w.music
    /\ tasks' = w.tasks
    /\ UNCHANGED <<temp_output, now>>

Here == World(self, music, tasks, <<>>)

Unrecorded == UNCHANGED in_effect

Frame(all) == Commit(process_frame(Here, all, now)) /\ Unrecorded

ProcessFrame == \E all \in SampleFrames : Frame(all)

ProcessAnyFrame == \E all \in MultiHandLandmarks : Frame(all)

KeyP == Commit(toggle_play_pause(Here)) /\ Unrecorded

KeyR == Commit(reset_controls(Here, now)) /\ Unrecorded

\* the pairs (current_speed, rounded current_pitch) in effect after each
\* assignment of lines 133, 145 and 160 that a frame made
RECURSIVE PairsOf(_, _, _, _)
PairsOf(speed, pitch, trace, k) ==
    IF k > Len(trace) THEN {}
    ELSE LET s == IF trace[k].what = "speed" THEN trace[k].new ELSE speed
             p == IF trace[k].what \in {"pitch1", "pitch2"} THEN trace[k].new ELSE pitch
         IN {<<s, RoundSemitone(p)>>} \cup PairsOf(s, p, trace, k + 1)

\* the frame and the reset again, with the history of the pairs kept
ProcessFrameRecorded ==
    \E all \in SampleFrames :
        LET w == process_frame(Here, all, now)
        IN /\ Commit(w)
           /\ in_effect' = in_effect \cup
                  PairsOf(self.current_speed, self.current_pitch, w.trace, 1)

\* lines 239-240: current_speed = 1.0, then current_pitch = 0.0
KeyRRecorded ==
    /\ Commit(reset_controls(Here, now))
    /\ in_effect' = in_effect \cup
           {<<1000, RoundSemitone(self.current_pitch)>>, <<1000, 0>>}

Tick ==
    \E d \in {TickMs, 4 * TickMs} :
        /\ now + d <= StartTime + MaxTicks * TickMs
        /\ now' = now + d
        /\ UNCHANGED <<self, music, temp_output, tasks, in_effect>>

\* --------------------------------------------- render threads (_process_audio)
TaskIds == 1..Len(tasks)

\* the thread ends: its locals are gone
Finish(i, pc) == [tasks EXCEPT ![i].pc = pc, ![i].speed = None, ![i].pitch = None]

\* line 186 and the argument of time_stretch, line 191
RenderCheck(i) ==
    /\ tasks[i].pc = "check"
    /\ tasks' = IF self.paused
                THEN Finish(i, "done")
                ELSE [tasks EXCEPT ![i].pc = "stretch",
                                   ![i].speed = self.current_speed]
    /\ UNCHANGED <<self, music, temp_output, now, in_effect>>

\* time_stretch returns; the argument of pitch_shift, line 196
RenderStretch(i) ==
    /\ tasks[i].pc = "stretch"
    /\ tasks' = [tasks EXCEPT ![i].pc = "shift",
                              ![i].pitch = RoundSemitone(self.current_pitch)]
    /\ UNCHANGED <<self, music, temp_output, now, in_effect>>

\* pitch_shift returns; sf.write opens and truncates the temporary file
RenderShift(i) ==
    /\ tasks[i].pc = "shift"
    /\ LET shared == \E j \in TaskIds : j /= i /\ tasks[j].pc = "write"
       IN tasks' = [j \in TaskIds |->
                      IF j = i THEN [tasks[j] EXCEPT !.pc = "write", !.clean = ~shared]
                      ELSE IF tasks[j].pc = "write" THEN [tasks[j] EXCEPT !.clean = FALSE]
                      ELSE tasks[j]]
    /\ temp_output' = Buffer(i, None, None, FALSE)
    /\ UNCHANGED <<self, music, now, in_effect>>

\* sf.write returns, line 200; a file two threads wrote at once holds the
\* output of neither or, for the thread that closes last, possibly its own
RenderWrite(i) ==
    /\ tasks[i].pc = "write"
    /\ tasks' = [tasks EXCEPT ![i].pc = "load", ![i].clean = TRUE]
    /\ LET mine == Buffer(i, tasks[i].speed, tasks[i].pitch, TRUE)
           torn == Buffer(i, None, None, FALSE)
       IN IF \E j \in TaskIds : j /= i /\ tasks[j].pc = "write"
          THEN temp_output' = torn
          ELSE IF tasks[i].clean THEN temp_output' = mine
          ELSE temp_output' \in {mine, torn}
    /\ UNCHANGED <<self, music, now, in_effect>>

\* lines 203-205: load, play, is_playing = True
RenderPlay(i) ==
    /\ tasks[i].pc = "load"
    /\ tasks' = Finish(i, "done")
    /\ music' = music_play(music_load(music, temp_output), FALSE)
    /\ self' = [self EXCEPT !.is_playing = TRUE]
    /\ UNCHANGED <<temp_output, now, in_effect>>

\* lines 209-211: time_stretch, pitch_shift, sf.write or music.load raises;
\* the exception is caught
RenderFail(i) ==
    /\ tasks[i].pc \in {"stretch", "shift", "write", "load"}
    /\ tasks' = Finish(i, "failed")
    /\ UNCHANGED <<self, music, temp_output, now, in_effect>>

\* lines 204, 209-211: music.load has returned and music.play raises
RenderFailPlay(i) ==
    /\ tasks[i].pc = "load"
    /\ tasks' = Finish(i, "failed")
    /\ music' = music_load(music, temp_output)
    /\ UNCHANGED <<self, temp_output, now, in_effect>>

\* a track played without looping reaches its end
TrackEnds ==
    /\ music.status = "playing"
    /\ ~music.loop
    /\ music' = [music EXCEPT !.status = "stopped"]
    /\ UNCHANGED <<self, temp_output, tasks, now, in_effect>>

Render ==
    \E i \in TaskIds :
        \/ RenderCheck(i)
        \/ RenderStretch(i)
        \/ RenderShift(i)
        \/ RenderWrite(i)
        \/ RenderPlay(i)
        \/ RenderFail(i)
        \/ RenderFailPlay(i)

Next ==
    \/ ProcessFrame
    \/ KeyP
    \/ KeyR
    \/ Tick
    \/ Render
    \/ TrackEnds

Spec == Init /\ [][Next]_vars

\* The frame thread alone, over every frame of the landmark source.  The
\* render threads write tasks, temp_output, the loaded buffer and status of
\* the sink and is_playing (to TRUE, which it already is); the frame thread
\* reads none of these but is_playing, so what it does to the parameters,
\* the debounce state, the volume and the spawning of renders is the same
\* with and without them.
NextFrames ==
    \/ ProcessAnyFrame
    \/ KeyP
    \/ KeyR
    \/ Tick

SpecFrames == Init /\ [][NextFrames]_vars

\* The frame loop, the resets and render threads that do not fail, with the
\* history in_effect recorded.  Without in_effect its behaviours are
\* behaviours of Spec.
RenderRuns ==
    \E i \in TaskIds :
        \/ RenderCheck(i)
        \/ RenderStretch(i)
        \/ RenderShift(i)
        \/ RenderWrite(i)
        \/ RenderPlay(i)

NextSnapshot ==
    \/ ProcessFrameRecorded
    \/ KeyRRecorded
    \/ Tick
    \/ RenderRuns

SpecSnapshot == Init /\ [][NextSnapshot]_vars

\* Spec with the scheduling of the render threads: a thread that has been
\* started (line 177) is not held back for ever, so as long as some render
\* thread has a step to take, one is eventually taken.  The threads are
\* finitely many and each takes finitely many steps, so each one ends.
SpecLive == Spec /\ WF_vars(RenderRuns)

\* ================================================================ claims
TwoHandFrames == {all \in MultiHandLandmarks : Len(all) = 2}

\* what processing the frame `all` in the current state does
FrameResult(all) == process_frame(Here, all, now)

Accepts(trace) == Count(trace, {"speed", "pitch1", "pitch2"})

\* C1: in every reachable state current_speed is in [0.5, 2.0],
\* current_pitch in [-12, 12] and the volume of the sink in [0.0, 1.0].
C1_ParametersInRange ==
    /\ self.current_speed >= 500 /\ self.current_speed <= 2000
    /\ self.current_pitch >= 0 - 12000 /\ self.current_pitch <= 12000
    /\ music.volume >= 0 /\ music.volume <= 1000

\* the raw values 2.2, 16.8 and 1.2 have been clamped, a render has completed
C1_Witness ==
    /\ self.current_speed = 2000
    /\ self.current_pitch = 12000
    /\ music.volume = 1000
    /\ music.loaded.by > 0
    /\ \E i \in TaskIds : tasks[i].pc = "done"

\* C2: in a two-hand frame the speed candidate becomes current_speed and
\* last_speed if and only if it differs from last_speed by more than 0.05;
\* otherwise current_speed is unchanged.  From last_speed 1.0, 1.04 is
\* rejected and 1.06 accepted.
C2_SpeedDebounce ==
    \A all \in TwoHandFrames :
        LET pinch == calculate_distance(all[1].thumb, all[1].index)
            raw == 1000 + (pinch - 100) * 2
            candidate == IF raw < 500 THEN 500 ELSE IF raw > 2000 THEN 2000 ELSE raw
            after == FrameResult(all).self
        IN /\ Abs(candidate - self.last_speed) > 50
              => after.current_speed = candidate /\ after.last_speed = candidate
           /\ Abs(candidate - self.last_speed) <= 50
              => /\ after.current_speed = self.current_speed
                 /\ after.last_speed = self.last_speed
           /\ self.last_speed = 1000 /\ candidate = 1040
              => after.current_speed = self.current_speed
           /\ self.last_speed = 1000 /\ candidate = 1060
              => after.current_speed = 1060

\* from last_speed 1.0 a two-hand frame offers 1.04 and is rejected, another
\* offers 1.06 and is accepted
C2_Witness ==
    /\ self.last_speed = 1000
    /\ \E all \in TwoHandFrames :
           /\ SpeedCandidate(Pinch(all[1])) = 1040
           /\ FrameResult(all).self.current_speed = self.current_speed
    /\ \E all \in TwoHandFrames :
           /\ SpeedCandidate(Pinch(all[1])) = 1060
           /\ FrameResult(all).self.current_speed = 1060
           /\ self.current_speed /= 1060

\* C3: every gesture-driven change of current_pitch sets it to a candidate
\* more than 0.5 semitone away from the pitch most recently accepted (on
\* either path); a candidate within 0.5 of it never changes current_pitch.
C3_PitchChangeBeyondThreshold ==
    \A all \in MultiHandLandmarks :
        LET trace == FrameResult(all).trace
        IN \A k \in 1..Len(trace) :
               (trace[k].what \in {"pitch1", "pitch2"} /\ trace[k].new /= trace[k].old)
               => Abs(trace[k].new - trace[k].base) > 500

\* C4: any two render spawns of a session are at least 200 ms apart; a
\* frame or a reset inside the interval spawns nothing, and a speed or pitch
\* candidate accepted inside the interval still becomes the current value.
C4_RenderSpacing ==
    /\ \A i, j \in TaskIds :
           i < j => tasks[j].spawn_time - tasks[i].spawn_time >= 200
    /\ \A i \in TaskIds : self.last_update_time >= tasks[i].spawn_time
    /\ now - self.last_update_time < 200
       => /\ reset_controls(Here, now).tasks = tasks
          /\ \A all \in SampleFrames :
                 LET w == FrameResult(all)
                 IN /\ w.tasks = tasks
                    /\ \A k \in 1..Len(w.trace) :
                           /\ w.trace[k].what = "speed"
                              => w.self.current_speed = w.trace[k].new
                           /\ w.trace[k].what \in {"pitch1", "pitch2"}
                              => \E m \in k..Len(w.trace) :
                                     /\ w.trace[m].what \in {"pitch1", "pitch2"}
                                     /\ w.self.current_pitch = w.trace[m].new

\* two renders spawned 200 ms apart; inside the interval that follows the
\* second a frame changes the speed and the pitch and spawns nothing
C4_Witness ==
    /\ Len(tasks) = 2
    /\ tasks[2].spawn_time - tasks[1].spawn_time = 200
    /\ now - self.last_update_time < 200
    /\ \E all \in SampleFrames :
           LET w == FrameResult(all)
           IN /\ w.self.current_speed /= self.current_speed
              /\ w.self.current_pitch /= self.current_pitch
              /\ w.tasks = tasks

\* C5: of two candidates that pass the value threshold and arrive 50 ms
\* apart, exactly one render is spawned, and it uses the later candidate's
\* value.  Stated where the earlier candidate spawned the last render 50 ms
\* ago (no reset has happened, so only accepted candidates spawn) and the
\* frame being processed accepts another.
C5_LaterCandidateRendered ==
    (/\ Len(tasks) > 0
     /\ self.u_last_speed = None
     /\ now - tasks[Len(tasks)].spawn_time = 50)
    => \A all \in SampleFrames :
           LET w == FrameResult(all)
               render == tasks[Len(tasks)]
           IN Accepts(w.trace) > 0
              => /\ w.tasks = tasks
                 /\ render.speed /= None => render.speed = w.self.current_speed
                 /\ render.pitch /= None
                    => render.pitch = RoundSemitone(w.self.current_pitch)

\* C6: at most one render task executes at a time.
Executing == {i \in TaskIds : tasks[i].pc \in {"stretch", "shift", "write", "load"}}

C6_RendersSerialized == Cardinality(Executing) <= 1

\* C7: after reset_controls, from any reachable state, current_speed is 1.0,
\* current_pitch is 0.0, the volume is unchanged, the sink is playing and
\* paused is False.
C7_ResetResumes ==
    LET w == reset_controls(Here, now)
    IN /\ w.self.current_speed = 1000
       /\ w.self.current_pitch = 0
       /\ w.music.volume = music.volume
       /\ w.music.status = "playing"
       /\ ~w.self.paused

\* C8: a render task that fails, at whichever step, leaves the sink (the
\* loaded audio, whether it plays) and the playback parameters as they were.
C8_FailedRenderLeavesPlayback ==
    [][\A i \in TaskIds :
           (tasks[i].pc /= "failed" /\ tasks'[i].pc = "failed")
           => (music' = music /\ self' = self)]_vars

\* C9: a two-hand frame sets the volume of the sink to the distance between
\* the wrists clamped to [0.0, 1.0], in every reachable state (whatever the
\* thresholds, the time gate and paused), and a frame in which no speed or
\* pitch candidate is accepted spawns no render.
C9_VolumeImmediate ==
    \A all \in TwoHandFrames :
        LET d == calculate_distance(all[1].wrist, all[2].wrist)
            w == FrameResult(all)
        IN /\ w.music.volume = IF d < 0 THEN 0 ELSE IF d > 1000 THEN 1000 ELSE d
           /\ Accepts(w.trace) = 0 => w.tasks = tasks

\* paused, inside the time gate, a two-hand frame whose candidates are all
\* rejected changes the volume to 0.5 and spawns nothing
C9_Witness ==
    /\ self.paused
    /\ now - self.last_update_time < 200
    /\ \E all \in TwoHandFrames :
           LET w == FrameResult(all)
           IN /\ Accepts(w.trace) = 0
              /\ music.volume /= 500
              /\ w.music.volume = 500
              /\ w.tasks = tasks

\* C10: processing one frame assigns current_speed at most once,
\* current_pitch at most once and the volume of the sink at most once.
C10_OneMutationPerFrame ==
    \A all \in MultiHandLandmarks :
        LET trace == FrameResult(all).trace
        IN /\ Count(trace, {"speed"}) <= 1
           /\ Count(trace, {"pitch1", "pitch2"}) <= 1
           /\ Count(trace, {"volume"}) <= 1

\* C11: the step in which a render task completes successfully loads that
\* render's output into the sink and starts it playing in looping mode, and
\* the sink never plays a rendered buffer without looping.
C11_RenderedBufferLoops ==
    [][/\ \A i \in TaskIds :
              (tasks[i].pc = "load" /\ tasks'[i].pc = "done")
              => /\ music'.loaded.by = i
                 /\ music'.status = "playing"
                 /\ music'.loop
       /\ (music'.loaded.by > 0 /\ music'.status = "playing") => music'.loop]_vars

\* C12: from the initial state (speed 1.0, pitch 0.0, debounce state as
\* constructed, no render yet) a frame with two hands 0.5 apart, both
\* pinching 0.3, leaves volume 0.5, current_speed 1.4, current_pitch -2.4
\* and spawns exactly one render.
InitialParameters ==
    /\ self.current_speed = 1000 /\ self.current_pitch = 0
    /\ self.last_speed = 1000 /\ self.last_pitch = 0
    /\ self.last_update_time = 0
    /\ tasks = <<>>

EndToEndFrame == <<Hand(Wrist0, 300), Hand(Wrist1, 300)>>

C12_EndToEnd ==
    InitialParameters
    => LET w == FrameResult(EndToEndFrame)
       IN /\ calculate_distance(EndToEndFrame[1].wrist, EndToEndFrame[2].wrist) = 500
          /\ w.music.volume = 500
          /\ w.self.current_speed = 1400
          /\ w.self.current_pitch = 0 - 2400
          /\ Len(w.tasks) = 1
          /\ Count(w.trace, {"spawn"}) = 1

\* the frame has been processed in the initial state: one render, spawned
\* at the time of the frame, and the three values of the frame
C12_Witness ==
    /\ Len(tasks) = 1
    /\ tasks[1].spawn_time = now
    /\ self.last_update_time = now
    /\ music.volume = 500
    /\ self.current_speed = 1400 /\ self.last_speed = 1400
    /\ self.current_pitch = 0 - 2400 /\ self.last_pitch = 0 - 2400
    /\ self.u_last_speed = None

\* C13: a frame without hands changes nothing (parameters, volume, debounce
\* state) and spawns no render; a frame with one hand leaves current_speed
\* and the volume as they were.
C13_FewHandsFrame ==
    \A all \in MultiHandLandmarks :
        LET w == FrameResult(all)
        IN /\ Len(all) = 0
              => /\ w.self = self
                 /\ w.music = music
                 /\ w.tasks = tasks
                 /\ w.trace = <<>>
           /\ Len(all) = 1
              => /\ w.self.current_speed = self.current_speed
                 /\ w.self.last_speed = self.last_speed
                 /\ w.music = music

\* speed and volume are away from their defaults, the time gate is open, and
\* a one-hand frame changes the pitch and spawns a render
C13_Witness ==
    /\ self.current_speed /= 1000
    /\ music.volume /= 1000
    /\ GateOpen(now, self.last_update_time)
    /\ tasks /= <<>>
    /\ \E all \in MultiHandLandmarks :
           /\ Len(all) = 1
           /\ FrameResult(all).self.current_pitch /= self.current_pitch
           /\ Len(FrameResult(all).tasks) = Len(tasks) + 1

\* C14: 'p' while playback is started and not paused pauses the sink and
\* sets paused; 'p' while paused resumes the sink and clears paused; two
\* presses in a row restore the paused flag and whether the sink plays; no
\* press changes current_speed, current_pitch or the volume.
C14_ToggleInvolution ==
    LET once == toggle_play_pause(Here)
        twice == toggle_play_pause([once EXCEPT !.trace = <<>>])
    IN /\ (self.is_playing /\ ~self.paused /\ music.status = "playing")
          => (once.self.paused /\ once.music.status = "paused")
       /\ (self.is_playing /\ self.paused)
          => (~once.self.paused /\ once.music.status = "playing")
       /\ twice.self.paused = self.paused
       /\ (twice.music.status = "playing") <=> (music.status = "playing")
       /\ once.self.current_speed = self.current_speed
       /\ once.self.current_pitch = self.current_pitch
       /\ once.music.volume = music.volume
       /\ twice.self.current_speed = self.current_speed
       /\ twice.self.current_pitch = self.current_pitch
       /\ twice.music.volume = music.volume

\* C15: in every reachable state last_speed equals current_speed, and right
\* after reset_controls the baselines are last_speed 1.0 and last_pitch 0.0.
C15_BaselineFollowsSpeed ==
    /\ self.last_speed = self.current_speed
    /\ LET w == reset_controls(Here, now)
       IN /\ w.self.last_speed = w.self.current_speed
          /\ w.self.last_speed = 1000
          /\ w.self.last_pitch = 0

\* C16: when the frame just processed is delivered again (0, 1 or 2 hands,
\* any pinches), processing it a second time changes neither current_speed
\* nor current_pitch and calls adjust_audio zero times.
C16_SteadyInputFixedPoint ==
    \A all \in MultiHandLandmarks :
        LET first == FrameResult(all)
            second == process_frame([first EXCEPT !.trace = <<>>], all, now + TickMs)
        IN /\ second.self.current_speed = first.self.current_speed
           /\ second.self.current_pitch = first.self.current_pitch
           /\ Count(second.trace, {"speed", "pitch1", "pitch2"}) = 0
           /\ Count(second.trace, {"gated", "spawn"}) = 0

\* C17: whenever paused is True the sink is not playing, under every
\* interleaving of the frame and keyboard thread with the render threads.
C17_PausedIsSilent == self.paused => music.status /= "playing"

\* C18: the speed a render task passes to time_stretch and the pitch it
\* passes to pitch_shift are a pair (current_speed, rounded current_pitch)
\* that was in effect together at some instant.
C18_ConsistentSnapshot ==
    \A i \in TaskIds :
        (tasks[i].speed /= None /\ tasks[i].pitch /= None)
        => <<tasks[i].speed, tasks[i].pitch>> \in in_effect

\* C19: if from some point on no candidate is accepted and no key is
\* pressed, playback is not paused, and no render task fails, then the audio
\* loaded in the sink is eventually the one rendered from the final
\* current_speed and the rounded final current_pitch.  Every started render
\* thread runs on (SpecLive).
NoInput == ~ProcessFrame /\ ~KeyP /\ ~KeyR

Audible ==
    /\ music.loaded.ok
    /\ music.loaded.speed = self.current_speed
    /\ music.loaded.pitch = RoundSemitone(self.current_pitch)

C19_EventuallyAudible ==
    (/\ <>[][NoInput]_vars
     /\ <>[](~self.paused)
     /\ [](\A i \in TaskIds : tasks[i].pc /= "failed"))
    => <>[]Audible

\* C20: after a frame with exactly two hands current_pitch is within 0.5
\* semitone of the pitch candidate of hand 1, clamp((pinch - 0.1) * 48 - 12,
\* -12, 12), whatever the pinch of hand 0 and the state before the frame.
C20_SecondHandDecidesPitch ==
    \A all \in TwoHandFrames :
        LET pinch == calculate_distance(all[2].thumb, all[2].index)
            raw == (pinch - 100) * 48 - 12000
            candidate == IF raw < 0 - 12000 THEN 0 - 12000
                         ELSE IF raw > 12000 THEN 12000 ELSE raw
        IN Abs(FrameResult(all).self.current_pitch - candidate) <= 500

\* a two-hand frame whose hands offer pitches more than 0.5 apart moves the
\* pitch to the candidate of hand 1, and another, whose hand 1 offers a
\* pitch within 0.5 of the one in effect, leaves the pitch short of it
C20_Witness ==
    /\ \E all \in TwoHandFrames :
           /\ Abs(PitchCandidate(Pinch(all[1])) - PitchCandidate(Pinch(all[2]))) > 500
           /\ FrameResult(all).self.current_pitch = PitchCandidate(Pinch(all[2]))
           /\ self.current_pitch /= PitchCandidate(Pinch(all[2]))
    /\ \E all \in TwoHandFrames :
           /\ FrameResult(all).self.current_pitch /= PitchCandidate(Pinch(all[2]))
           /\ FrameResult(all).self.current_pitch = self.current_pitch

====
